---- MODULE Spec2Model ----
(***************************************************************************)
(* Event state reconciliation of the ATFi event backend: the status        *)
(* lifecycle of events_metadata, the EventMetadata model object, the       *)
(* Goldsky webhook with its transactional upsert, and the complete-event   *)
(* read.  The relational store is modelled as tables (sequences of rows)   *)
(* with the constraints the statements rely on.                            *)
(***************************************************************************)
EXTENDS Integers, Sequences, FiniteSets, TLC

\* ---------------------------------------------------------------- bounds
MaxEvent == 2
MaxTime == 3
MaxCount == 2
MaxYield == 1
MaxBatch == 2

\* ---------------------------------------------------------------- values
NULL == "NULL"

validStatuses == {"REGISTRATION_OPEN", "REGISTRATION_CLOSED", "LIVE", "SETTLED", "VOIDED"}

EventIds == 1..MaxEvent
Times == 0..MaxTime
Counts == 0..MaxCount
Yields == 0..MaxYield
TxHashes == {"0xaa", "0xbb"}
Wallets == {"0xorganizer"}
ProfileIds == {"uuid-a"}
Titles == {"Meetup"}
UserAddresses == {"0xalice", "0xbob"}
UserIds == {"uuid-b", "uuid-c"}
CheckinIds == {"chk-1"}

VARIABLES
    now,        \* wall clock, Unix seconds
    em,         \* an EventMetadata model instance held by a caller
    onchain,    \* table events_onchain
    metadata,   \* table events_metadata
    profiles,   \* table profiles
    settle,     \* the SettleEvent request in flight
    hook,       \* the Goldsky webhook request in flight
    gs,         \* the upsertEventFromGoldsky call in flight
    participant,\* table participant
    checkins,   \* table checkins
    reg,        \* the RegisterUser request in flight
    claim,      \* the ClaimReward request in flight
    other,      \* a second caller's requests in flight, while the first runs
    last        \* the last completed operation and what it observed

vars == <<now, em, onchain, metadata, profiles, settle, hook, gs, participant, checkins, reg,
         claim, other, last>>

\* ------------------------------------------------- JavaScript `a || b`
\* A nullable column or property is a set: {} is null/undefined, {v} is v.
JsOrText(a, d) == IF a = {} \/ a = {""} THEN d ELSE CHOOSE v \in a : TRUE
JsOrNum(a, d) == IF a = {} \/ a = {0} THEN d ELSE CHOOSE v \in a : TRUE
JsOrBool(a, d) == IF a = {} \/ a = {FALSE} THEN d ELSE CHOOSE v \in a : TRUE

\* ------------------------------------------ EventMetadata (model object)
\* new EventMetadata(data)
EventMetadataNew(data) ==
    [ event_id             |-> JsOrNum(data.event_id, 0),
      title                |-> JsOrText(data.title, NULL),
      organizer_profile_id |-> JsOrText(data.organizer_profile_id, NULL),
      status               |-> JsOrText(data.status, "REGISTRATION_OPEN"),
      current_participants |-> JsOrNum(data.current_participants, 0),
      event_settled        |-> JsOrBool(data.event_settled, FALSE),
      total_yield_earned   |-> JsOrNum(data.total_yield_earned, 0),
      total_net_yield      |-> JsOrNum(data.total_net_yield, 0) ]

\* The status updateStatusBasedOnTime assigns.
DerivedStatusLate(t, registrationDeadline, eventDate, participants) ==
    IF t < registrationDeadline THEN "REGISTRATION_OPEN"
    ELSE IF t <= eventDate
         THEN (IF participants > 0 THEN "REGISTRATION_CLOSED" ELSE "VOIDED")
         ELSE "LIVE"

DerivedStatus(t, registrationDeadline, eventDate, participants) ==
    IF t < registrationDeadline THEN "REGISTRATION_OPEN"
    ELSE IF t < eventDate
         THEN (IF participants > 0 THEN "REGISTRATION_CLOSED" ELSE "VOIDED")
         ELSE "LIVE"

EmFrame ==
    UNCHANGED <<now, onchain, metadata, profiles, settle, hook, gs, participant, checkins, reg,
                claim, other>>

\* const m = new EventMetadata({status, current_participants})
NewEventMetadata ==
    /\ \E st \in {{}} \cup {{s} : s \in validStatuses}, cp \in {{}} \cup {{n} : n \in Counts} :
          em' = EventMetadataNew([ event_id |-> {}, title |-> {}, organizer_profile_id |-> {},
                                   status |-> st, current_participants |-> cp,
                                   event_settled |-> {}, total_yield_earned |-> {},
                                   total_net_yield |-> {} ])
    /\ last' = [op |-> "new"]
    /\ EmFrame

\* m.updateStatusBasedOnTime(registrationDeadline, eventDate)
updateStatusBasedOnTime ==
    /\ \E rd \in Times, ed \in Times :
          /\ em' = [em EXCEPT !.status = DerivedStatus(now, rd, ed, em.current_participants)]
          /\ last' = [op |-> "updateStatusBasedOnTime", rd |-> rd, ed |-> ed, at |-> now,
                      pre |-> em.status, post |-> em'.status]
    /\ EmFrame

\* m.markAsSettled(totalYieldEarned, totalNetYield)
markAsSettled ==
    /\ \E y \in Yields, n \in Yields :
          em' = [em EXCEPT !.event_settled = TRUE, !.total_yield_earned = y,
                           !.total_net_yield = n, !.status = "SETTLED"]
    /\ last' = [op |-> "markAsSettled", pre |-> em.status, post |-> "SETTLED"]
    /\ EmFrame

\* m.incrementParticipantCount()
incrementParticipantCount ==
    /\ em.current_participants < MaxCount
    /\ em' = [em EXCEPT !.current_participants = @ + 1]
    /\ last' = [op |-> "incrementParticipantCount"]
    /\ EmFrame

\* m.decrementParticipantCount()
decrementParticipantCount ==
    /\ em' = IF em.current_participants > 0
             THEN [em EXCEPT !.current_participants = @ - 1]
             ELSE em
    /\ last' = [op |-> "decrementParticipantCount"]
    /\ EmFrame

\* The clock advances.
Tick ==
    /\ now < MaxTime
    /\ now' = now + 1
    /\ UNCHANGED <<em, onchain, metadata, profiles, settle, hook, gs, participant, checkins, reg,
                   claim, other, last>>

JsNull == [null |-> TRUE]

HookIdle == [pc |-> "idle", events |-> <<>>, processedEvents |-> <<>>]

GsIdle ==
    [ pc |-> "idle", g |-> JsNull, ok |-> FALSE, inTx |-> FALSE, wOn |-> <<>>, wMd |-> <<>>,
      saved |-> <<>>, org |-> NULL, seen |-> {}, didOn |-> {}, didMd |-> {},
      redelivery |-> FALSE ]

Init ==
    /\ now = 0
    /\ em = EventMetadataNew([ event_id |-> {}, title |-> {}, organizer_profile_id |-> {},
                               status |-> {}, current_participants |-> {},
                               event_settled |-> {}, total_yield_earned |-> {},
                               total_net_yield |-> {} ])
    /\ onchain = <<>>
    /\ metadata = <<>>
    /\ profiles = {}
    /\ settle = [pc |-> "idle"]
    /\ hook = HookIdle
    /\ gs = GsIdle
    /\ participant = {}
    /\ checkins = {}
    /\ reg = [pc |-> "idle"]
    /\ claim = [pc |-> "idle"]
    /\ other = [gs |-> GsIdle, reg |-> [pc |-> "idle"], claim |-> [pc |-> "idle"]]
    /\ last = [op |-> "none"]

\* ------------------------------------------------------------- tables
\* events_onchain: transaction_hash is the arbiter of the Goldsky upsert,
\* event_id is the primary key, vault is NOT NULL (and one vault per event).
VaultOf(e) == "0xv" \o ToString(e)

OnchainRow(g) ==
    [ transaction_hash |-> g.transaction_hash, event_id |-> g.event_id, vault |-> g.vault,
      organizer |-> g.organizer, registration_deadline |-> g.registration_deadline,
      event_date |-> g.event_date ]

\* events_metadata row with the column defaults.
MetadataRow(e, title, organizer) ==
    [ event_id |-> e, title |-> title, organizer_profile_id |-> organizer,
      status |-> "REGISTRATION_OPEN", current_participants |-> 0, event_settled |-> FALSE,
      deposited_to_yield |-> FALSE ]

Rows(t) == {t[i] : i \in 1..Len(t)}
OnchainOf(t, e) == LET P(r) == r.event_id = e IN SelectSeq(t, P)
OnchainByTx(t, h) == LET P(r) == r.transaction_hash = h IN SelectSeq(t, P)
MetadataOf(t, e) == LET P(r) == r.event_id = e IN SelectSeq(t, P)
StatusOf(t, e) == IF MetadataOf(t, e) = <<>> THEN NULL ELSE MetadataOf(t, e)[1].status

\* UPDATE events_metadata SET status = st WHERE event_id = e
SetStatus(t, e, st) ==
    [i \in 1..Len(t) |-> IF t[i].event_id = e THEN [t[i] EXCEPT !.status = st] ELSE t[i]]

\* What the data feed delivers: Goldsky entities, and a JSON null.
GoldskyEvents ==
    { [ null |-> FALSE, transaction_hash |-> h, event_id |-> e,
        vault |-> IF v THEN VaultOf(e) ELSE NULL, organizer |-> w,
        registration_deadline |-> e, event_date |-> e + 1 ] :
      h \in TxHashes, e \in EventIds, v \in BOOLEAN, w \in Wallets }

\* What the handlers of the event tables leave alone.
DbFrame == UNCHANGED <<now, em, participant, checkins, reg, claim, other>>

\* ----------------------------------------------------- Go event handler
\* The indexing pipeline writes events_onchain directly; the handlers
\* expect the row to be there.
IndexerInsertOf(feed) ==
    /\ \E g \in feed :
          /\ g.vault # NULL
          /\ OnchainByTx(onchain, g.transaction_hash) = <<>>
          /\ OnchainOf(onchain, g.event_id) = <<>>
          /\ OnchainByTx(gs.wOn \o other.gs.wOn, g.transaction_hash) = <<>>
          /\ OnchainOf(gs.wOn \o other.gs.wOn, g.event_id) = <<>>
          /\ onchain' = Append(onchain, OnchainRow(g))
    /\ last' = [op |-> "IndexerInsert"]
    /\ UNCHANGED <<metadata, profiles, settle, hook, gs>>
    /\ DbFrame

\* The transaction that created an event on chain, and the feed of the
\* creations alone.
CreationTx(e) == IF e = 1 THEN "0xaa" ELSE "0xbb"
EventCreations == {g \in GoldskyEvents : g.transaction_hash = CreationTx(g.event_id)}

\* ... fed with anything Goldsky may deliver, or with the creations only.
IndexerInsert == IndexerInsertOf(GoldskyEvents)
IndexEvent == IndexerInsertOf(EventCreations)

\* POST /events: the row CreateEvent verifies and writes for a request.
CreateEventKey(reqEventID) == reqEventID + 1

\* INSERT ... ON CONFLICT (event_id) DO UPDATE SET title, ..., status
CreateEventUpsert(t, e, title) ==
    IF MetadataOf(t, e) = <<>>
    THEN Append(t, MetadataRow(e, title, NULL))
    ELSE [i \in 1..Len(t) |->
            IF t[i].event_id = e
            THEN [t[i] EXCEPT !.title = title, !.status = "REGISTRATION_OPEN"]
            ELSE t[i]]

CreateEvent ==
    /\ \E id \in 0..MaxEvent, title \in Titles \cup {""} :
          LET e == CreateEventKey(id)
              had == MetadataOf(metadata, id) # <<>>
          IN
          IF id = 0 \/ title = ""
          THEN /\ last' = [op |-> "CreateEvent", id |-> id, code |-> 400, title |-> title,
                           had |-> had, pre |-> NULL, post |-> NULL]
               /\ UNCHANGED metadata
          ELSE IF OnchainOf(onchain, e) = <<>>
          THEN /\ last' = [op |-> "CreateEvent", id |-> id, code |-> 400, title |-> title,
                           had |-> had,
                           pre |-> StatusOf(metadata, e), post |-> StatusOf(metadata, e)]
               /\ UNCHANGED metadata
          ELSE /\ MetadataOf(gs.wMd \o other.gs.wMd, e) = <<>>
               /\ metadata' = CreateEventUpsert(metadata, e, title)
               /\ last' = [op |-> "CreateEvent", id |-> id, code |-> 201, key |-> e,
                           title |-> title, had |-> had,
                           pre |-> StatusOf(metadata, e), post |-> StatusOf(metadata', e)]
    /\ UNCHANGED <<onchain, profiles, settle, hook, gs>>
    /\ DbFrame

\* The request a GetEvent follows: a created event, or anything else.
Created(l) ==
    IF l.op = "CreateEvent" /\ l.code = 201
    THEN [op |-> "CreateEvent", id |-> l.id, title |-> l.title]
    ELSE [op |-> "other"]

\* ------------------------------------------------ reads of the chain
\* h.client.CallContract and the unpacking of its result: an error, or the
\* value the contract returned.
ContractCalls == {[err |-> TRUE, value |-> {}]} \cup {[err |-> FALSE, value |-> {n}] : n \in Counts}

\* var currentParticipants int64 = 0, overwritten when the call succeeded.
CurrentParticipants(call) == IF call.err THEN 0 ELSE CHOOSE n \in call.value : TRUE

\* The two answers of GetEvent: with participant_count, and the bare event.
EventAnswerStrict(id, call) ==
    [ op |-> "GetEvent", id |-> id, code |-> IF call.err THEN 500 ELSE 200,
      title |-> MetadataOf(metadata, id)[1].title,
      participant_count |-> IF call.err THEN {} ELSE call.value, chain_failed |-> call.err,
      after |-> Created(last) ]
EventAnswer(id, call) ==
    [ op |-> "GetEvent", id |-> id, code |-> 200, title |-> MetadataOf(metadata, id)[1].title,
      participant_count |-> IF call.err THEN {} ELSE call.value, chain_failed |-> call.err,
      after |-> Created(last) ]

\* GET /events/:id: events_onchain JOIN events_metadata WHERE eo.event_id = $1
GetEvent ==
    /\ \E id \in EventIds, call \in ContractCalls :
          last' = IF OnchainOf(onchain, id) = <<>> \/ MetadataOf(metadata, id) = <<>>
                  THEN [op |-> "GetEvent", id |-> id, code |-> 404, title |-> NULL,
                        participant_count |-> {}, chain_failed |-> FALSE,
                        after |-> Created(last)]
                  ELSE EventAnswer(id, call)
    /\ UNCHANGED <<onchain, metadata, profiles, settle, hook, gs>>
    /\ DbFrame

\* The event ids of a set, highest first (ORDER BY eo.event_id DESC).
RECURSIVE Descending(_)
Descending(ids) ==
    IF ids = {} THEN <<>>
    ELSE LET top == CHOOSE x \in ids : \A y \in ids : y <= x
         IN <<top>> \o Descending(ids \ {top})

\* events_onchain JOIN events_metadata with the optional filters of GetEvents.
Listed(status, organizer) ==
    { e \in EventIds :
        /\ OnchainOf(onchain, e) # <<>>
        /\ MetadataOf(metadata, e) # <<>>
        /\ status # "" => MetadataOf(metadata, e)[1].status = status
        /\ organizer # "" => OnchainOf(onchain, e)[1].organizer = organizer }

\* LIMIT $n OFFSET $m over an ordered result.
Page(rows, limit, offset) ==
    SubSeq(rows, offset + 1, IF offset + limit < Len(rows) THEN offset + limit ELSE Len(rows))

\* GET /events: one contract call per listed row, then the total count.
GetEvents ==
    /\ \E status \in {"", "REGISTRATION_OPEN"}, organizer \in {""} \cup Wallets,
          page \in 1..2, limit \in {1, 10} :
          LET rows == Page(Descending(Listed(status, organizer)), limit, (page - 1) * limit)
          IN \E calls \in [Rows(rows) -> ContractCalls] :
                last' = [ op |-> "GetEvents", code |-> 200,
                          events |-> [i \in 1..Len(rows) |->
                                        [ event_id |-> rows[i],
                                          title |-> MetadataOf(metadata, rows[i])[1].title,
                                          current_participants |->
                                              CurrentParticipants(calls[rows[i]]) ]],
                          failed |-> {e \in Rows(rows) : calls[e].err},
                          total |-> Cardinality(Listed(status, organizer)) ]
    /\ UNCHANGED <<onchain, metadata, profiles, settle, hook, gs>>
    /\ DbFrame

\* getUSDCBalanceFromContract: ("0", err), or the balance in USDC.
BalanceCalls == {[err |-> TRUE, balance |-> "0"], [err |-> FALSE, balance |-> "0"],
                 [err |-> FALSE, balance |-> "12.5"]}

\* balance := "0", overwritten when the call succeeded.
Balance(call) == IF call.err THEN "0" ELSE call.balance

\* GET /profiles/:walletAddress. The driver's no-rows error is answered as
\* not found or as a database error.
GetProfile ==
    /\ \E w \in Wallets \cup UserAddresses, call \in BalanceCalls :
          LET found == {p \in profiles : p.wallet_address = w} IN
          IF found = {}
          THEN \E code \in {404, 500} :
                  last' = [op |-> "GetProfile", wallet_address |-> w, code |-> code,
                           balance |-> {}, chain_failed |-> FALSE]
          ELSE last' = [op |-> "GetProfile", wallet_address |-> w, code |-> 200,
                        id |-> (CHOOSE p \in found : TRUE).id,
                        balance |-> {Balance(call)}, chain_failed |-> call.err]
    /\ UNCHANGED <<onchain, metadata, profiles, settle, hook, gs>>
    /\ DbFrame

\* PUT /events/:id/status
UpdateEventStatus ==
    /\ \E e \in EventIds, st \in validStatuses \cup {"CANCELLED"} :
          IF st \notin validStatuses
          THEN /\ last' = [op |-> "UpdateEventStatus", id |-> e, code |-> 400,
                           pre |-> StatusOf(metadata, e), post |-> StatusOf(metadata, e)]
               /\ UNCHANGED metadata
          ELSE /\ metadata' = SetStatus(metadata, e, st)
               /\ last' = [op |-> "UpdateEventStatus", id |-> e,
                           code |-> IF MetadataOf(metadata, e) = <<>> THEN 404 ELSE 200,
                           pre |-> StatusOf(metadata, e), post |-> StatusOf(metadata', e)]
    /\ UNCHANGED <<onchain, profiles, settle, hook, gs>>
    /\ DbFrame

\* POST /events/:id/settle, first statement: SELECT status
SettleEventSelect ==
    /\ settle.pc = "idle"
    /\ \E e \in EventIds :
          IF MetadataOf(metadata, e) = <<>>
          THEN /\ last' = [op |-> "SettleEvent", id |-> e, code |-> 404,
                           pre |-> NULL, post |-> NULL]
               /\ UNCHANGED settle
          ELSE IF StatusOf(metadata, e) # "LIVE"
          THEN /\ last' = [op |-> "SettleEvent", id |-> e, code |-> 400,
                           pre |-> StatusOf(metadata, e), post |-> StatusOf(metadata, e)]
               /\ UNCHANGED settle
          ELSE /\ settle' = [pc |-> "update", id |-> e]
               /\ UNCHANGED last
    /\ UNCHANGED <<onchain, metadata, profiles, hook, gs>>
    /\ DbFrame

\* POST /events/:id/settle, second statement: UPDATE ... SET status = 'SETTLED'
SettleEventUpdate ==
    /\ settle.pc = "update"
    /\ metadata' = SetStatus(metadata, settle.id, "SETTLED")
    /\ last' = [op |-> "SettleEvent", id |-> settle.id, code |-> 200,
                pre |-> StatusOf(metadata, settle.id), post |-> StatusOf(metadata', settle.id)]
    /\ settle' = [pc |-> "idle"]
    /\ UNCHANGED <<onchain, profiles, hook, gs>>
    /\ DbFrame

\* POST /events/:id/confirm-settlement
ConfirmSettlement ==
    /\ \E e \in EventIds :
          /\ metadata' = SetStatus(metadata, e, "SETTLED")
          /\ last' = [op |-> "ConfirmSettlement", id |-> e, code |-> 200,
                      pre |-> StatusOf(metadata, e), post |-> StatusOf(metadata', e)]
    /\ UNCHANGED <<onchain, profiles, settle, hook, gs>>
    /\ DbFrame

\* uuid.New(), gen_random_uuid(): an identifier no profile has. Identifiers
\* are interchangeable, so one unused one stands for all.
UuidNew(ids) ==
    LET free == {id \in ids : \A p \in profiles : p.id # id}
    IN IF free = {} THEN {} ELSE {CHOOSE id \in free : TRUE}

\* POST /profiles
CreateProfileOf(wallets, ids) ==
    /\ \E w \in wallets, id \in UuidNew(ids) :
          /\ IF \E p \in profiles : p.wallet_address = w
             THEN /\ UNCHANGED profiles
                  /\ last' = [op |-> "CreateProfile", code |-> 409]
             ELSE /\ profiles' = profiles \cup {[id |-> id, wallet_address |-> w]}
                  /\ last' = [op |-> "CreateProfile", code |-> 201]
    /\ UNCHANGED <<onchain, metadata, settle, hook, gs>>
    /\ DbFrame

\* ... by an organizer, and by a user who will register.
CreateProfile == CreateProfileOf(Wallets, ProfileIds)
CreateUserProfile == CreateProfileOf(UserAddresses, UserIds)

\* ------------------------------------------------ JS database service
\* PUT /api/v1/events/:eventId/status
updateEventStatus ==
    /\ \E e \in EventIds, st \in validStatuses \cup {"CANCELLED"} :
          IF st \notin validStatuses
          THEN /\ last' = [op |-> "updateEventStatus", id |-> e, code |-> 400,
                           pre |-> StatusOf(metadata, e), post |-> StatusOf(metadata, e)]
               /\ UNCHANGED metadata
          ELSE /\ metadata' = SetStatus(metadata, e, st)
               /\ last' = [op |-> "updateEventStatus", id |-> e,
                           code |-> IF MetadataOf(metadata, e) = <<>> THEN 500 ELSE 200,
                           pre |-> StatusOf(metadata, e), post |-> StatusOf(metadata', e)]
    /\ UNCHANGED <<onchain, profiles, settle, hook, gs>>
    /\ DbFrame

\* new EventMetadata(data) on the columns of a joined row; a column of the
\* LEFT JOIN is NULL when no events_metadata row matched.
MetadataColumns(ms) ==
    [ event_id |-> {m.event_id : m \in ms}, title |-> {m.title : m \in ms},
      organizer_profile_id |-> {m.organizer_profile_id : m \in ms} \ {NULL},
      status |-> {m.status : m \in ms},
      current_participants |-> {m.current_participants : m \in ms},
      event_settled |-> {m.event_settled : m \in ms},
      total_yield_earned |-> {}, total_net_yield |-> {} ]

\* getCompleteEvent(eventId): null, or the Event built from the first row.
\* metadataData.event_id is the on-chain column.
getCompleteEvent(eventId) ==
    IF OnchainOf(onchain, eventId) = <<>>
    THEN [found |-> FALSE]
    ELSE LET eo == OnchainOf(onchain, eventId)[1]
             ms == IF MetadataOf(metadata, eventId) = <<>> THEN {}
                   ELSE {MetadataOf(metadata, eventId)[1]}
         IN [ found |-> TRUE, onchain |-> eo,
              metadata |-> EventMetadataNew([MetadataColumns(ms) EXCEPT !.event_id = {eo.event_id}]) ]

\* GET /api/v1/events/:eventId
getEvent ==
    /\ \E e \in EventIds :
          last' = [ op |-> "getEvent", id |-> e,
                    code |-> IF getCompleteEvent(e).found THEN 200 ELSE 404,
                    hadMetadata |-> MetadataOf(metadata, e) # <<>>,
                    data |-> getCompleteEvent(e) ]
    /\ UNCHANGED <<onchain, metadata, profiles, settle, hook, gs>>
    /\ DbFrame

\* Request payloads: a field is a key of the payload when it is defined.
\* description stands for the text columns the model's rows do not carry.
UpdateValues ==
    [ title |-> "Renamed", description |-> "Text", status |-> "VOIDED",
      current_participants |-> MaxCount, event_settled |-> TRUE,
      deposited_to_yield |-> TRUE, organizer_profile_id |-> "uuid-a" ]
Payloads == {[k \in K |-> UpdateValues[k]] : K \in SUBSET (DOMAIN UpdateValues)}

\* const allowedFields = [...]
anyField == DOMAIN UpdateValues
allowedFields == {"title", "description", "image_url", "location", "category", "tags"}

\* The SET list built from Object.keys(updateData).
UpdateFields(updateData) == {key \in DOMAIN updateData : key \in allowedFields}

\* updateEventMetadata(eventId, updateData): UPDATE events_metadata SET
\* <updateFields> WHERE event_id = $1 RETURNING *.
updateEventMetadata(t, e, updateData) ==
    [i \in 1..Len(t) |->
        IF t[i].event_id = e
        THEN [c \in DOMAIN t[i] |->
                 IF c \in UpdateFields(updateData) THEN updateData[c] ELSE t[i][c]]
        ELSE t[i]]

\* const { title, description, image_url, location, category, tags } = req.body,
\* and the undefined ones deleted.
UpdateData(body) ==
    [k \in DOMAIN body \cap {"title", "description", "image_url", "location", "category",
                             "tags"} |-> body[k]]

\* POST /api/v1/events/:eventId/metadata
upsertEventMetadata ==
    /\ \E e \in EventIds, body \in Payloads :
          LET had == MetadataOf(metadata, e) # <<>>
              title == IF "title" \in DOMAIN body THEN {body["title"]} ELSE {}
          IN
          IF ~getCompleteEvent(e).found
          THEN /\ last' = [op |-> "upsertEventMetadata", id |-> e, title |-> title,
                           had |-> had, code |-> 404]
               /\ UNCHANGED metadata
          ELSE IF UpdateFields(UpdateData(body)) = {} \/ ~had
          THEN \* 'No valid fields to update' / 'Event metadata not found'
               /\ last' = [op |-> "upsertEventMetadata", id |-> e, title |-> title,
                           had |-> had, code |-> 500]
               /\ UNCHANGED metadata
          ELSE /\ metadata' = updateEventMetadata(metadata, e, UpdateData(body))
               /\ last' = [op |-> "upsertEventMetadata", id |-> e, title |-> title,
                           had |-> had, code |-> 200]
    /\ UNCHANGED <<onchain, profiles, settle, hook, gs>>
    /\ DbFrame

\* DatabaseService.updateEventMetadata(eventId, updateData) on any payload:
\* it throws on an empty SET list and when no row matched.
updateEventMetadataCall ==
    /\ \E e \in EventIds, updateData \in Payloads :
          LET threw == UpdateFields(updateData) = {} \/ MetadataOf(metadata, e) = <<>> IN
          /\ metadata' = IF UpdateFields(updateData) = {} THEN metadata
                         ELSE updateEventMetadata(metadata, e, updateData)
          /\ last' = [op |-> "updateEventMetadata", id |-> e,
                      data |-> DOMAIN updateData, threw |-> threw]
    /\ UNCHANGED <<onchain, profiles, settle, hook, gs>>
    /\ DbFrame

\* ------------------------------------------------- ready for yield
\* UPDATE events_metadata SET deposited_to_yield = true WHERE event_id = $1
markEventAsDepositedToYield ==
    /\ \E e \in EventIds :
          /\ metadata' = [i \in 1..Len(metadata) |->
                            IF metadata[i].event_id = e
                            THEN [metadata[i] EXCEPT !.deposited_to_yield = TRUE]
                            ELSE metadata[i]]
          /\ last' = [op |-> "markEventAsDepositedToYield", id |-> e,
                      threw |-> MetadataOf(metadata, e) = <<>>]
    /\ UNCHANGED <<onchain, profiles, settle, hook, gs>>
    /\ DbFrame

\* Event.fromDatabaseData on a row of events_onchain LEFT JOIN
\* events_metadata: joined is the matched metadata row, if any, and metadata
\* the EventMetadata built from its columns.
JoinedEvent(eo) ==
    LET ms == IF MetadataOf(metadata, eo.event_id) = <<>> THEN {}
              ELSE {MetadataOf(metadata, eo.event_id)[1]}
    IN [ event_id |-> eo.event_id, onchain |-> eo, joined |-> ms,
         metadata |-> [ status |-> JsOrText({m.status : m \in ms}, "REGISTRATION_OPEN"),
                        current_participants |->
                           JsOrNum({m.current_participants : m \in ms}, 0),
                        deposited_to_yield |->
                           JsOrBool({m.deposited_to_yield : m \in ms}, FALSE) ] ]

\* getEvents(filters) with no status, organizer or page: the on-chain rows
\* kept by AND em.deposited_to_yield = $1; depositedToYield is {} when the
\* filter is undefined.
getEvents(depositedToYield) ==
    LET Kept(eo) == \/ depositedToYield = {}
                    \/ \E m \in JoinedEvent(eo).joined : m.deposited_to_yield \in depositedToYield
    IN SelectSeq(onchain, Kept)

\* getRegistrationDeadline(): null, or the deadline as a Date.
getRegistrationDeadline(eo) ==
    IF eo.registration_deadline = 0 THEN {} ELSE {eo.registration_deadline}

\* deadline && now >= deadline.getTime()
DeadlinePassed(eo) == \E deadline \in getRegistrationDeadline(eo) : now >= deadline

\* The filter of getEventsReadyForYield.
ReadyEvent(eo) ==
    DeadlinePassed(eo) /\ JoinedEvent(eo).metadata.current_participants > 0

\* The test of getEventStats.
StatsReadyDeposited(eo) ==
    /\ JoinedEvent(eo).metadata.current_participants > 0
    /\ DeadlinePassed(eo)
StatsReady(eo) ==
    /\ ~JoinedEvent(eo).metadata.deposited_to_yield
    /\ JoinedEvent(eo).metadata.current_participants > 0
    /\ DeadlinePassed(eo)

\* GET /api/v1/events/ready-for-yield
getEventsReadyForYield ==
    /\ LET readyEvents == SelectSeq(getEvents({FALSE}), ReadyEvent) IN
       last' = [ op |-> "getEventsReadyForYield", code |-> 200, at |-> now,
                 events |-> [i \in 1..Len(readyEvents) |-> readyEvents[i].event_id],
                 total |-> Len(readyEvents) ]
    /\ UNCHANGED <<onchain, metadata, profiles, settle, hook, gs>>
    /\ DbFrame

\* stats.total_participants += event.metadata.current_participants
RECURSIVE TotalParticipants(_)
TotalParticipants(events) ==
    IF events = <<>> THEN 0
    ELSE JoinedEvent(Head(events)).metadata.current_participants
            + TotalParticipants(Tail(events))

\* GET /api/v1/events/stats
getEventStats ==
    /\ LET allEvents == getEvents({})
           statuses == {JoinedEvent(allEvents[i]).metadata.status : i \in 1..Len(allEvents)}
           WithStatus(st) == LET P(eo) == JoinedEvent(eo).metadata.status = st
                             IN SelectSeq(allEvents, P)
       IN last' = [ op |-> "getEventStats", code |-> 200, at |-> now,
                    total_events |-> Len(allEvents),
                    by_status |-> [st \in statuses |-> Len(WithStatus(st))],
                    total_participants |-> TotalParticipants(allEvents),
                    events_ready_for_yield |-> Len(SelectSeq(allEvents, StatsReady)) ]
    /\ UNCHANGED <<onchain, metadata, profiles, settle, hook, gs>>
    /\ DbFrame

\* ------------------------------------------- upsertEventFromGoldsky
\* A statement of a request still in flight has completed.
InFlight == [op |-> "statement"]

EventTitle(e) == "Event " \o ToString(e)

\* client.query('BEGIN')
TxBeginSkipped(c) == c
TxBegin(c) == [c EXCEPT !.inTx = TRUE]

\* client.query('ROLLBACK')
TxRollback(c) == [c EXCEPT !.inTx = FALSE, !.wOn = <<>>, !.wMd = <<>>]

\* events_onchain rows a transaction wrote (w), applied to the committed
\* table: a row of a stored transaction hash takes that row's place, any
\* other row is added. Written(t, after) is what a statement wrote.
ApplyWrites(t, w) ==
    LET Old(r) == OnchainByTx(t, r.transaction_hash) = <<>> IN
    [i \in 1..Len(t) |->
        IF OnchainByTx(w, t[i].transaction_hash) # <<>>
        THEN OnchainByTx(w, t[i].transaction_hash)[1]
        ELSE t[i]] \o SelectSeq(w, Old)

Written(t, after) == LET New(r) == r \notin Rows(t) IN SelectSeq(after, New)

\* ... with the row of transaction hash h, which DO UPDATE rewrote and keeps
\* locked until the transaction ends.
Touched(t, after, h) ==
    LET Mine(r) == r \in Rows(Written(t, after)) \/ r.transaction_hash = h
    IN SelectSeq(after, Mine)

\* A statement waits while another transaction holds an uncommitted row with
\* the key it writes; it runs when that transaction has ended.
WaitsNever(w, g) == FALSE
Waits(w, g) ==
    \E i \in 1..Len(w) : \/ w[i].transaction_hash = g.transaction_hash
                         \/ w[i].event_id = g.event_id

\* The tables as the transaction's own statements see them.
SeenOnchain == ApplyWrites(onchain, gs.wOn)
SeenMetadata == metadata \o gs.wMd

\* catch (error) { ROLLBACK; throw error } finally { client.release() }
UpsertThrow(c) == [TxRollback(c) EXCEPT !.pc = "returned", !.ok = FALSE]

\* What a failed call leaves to observe: the statement that failed, why
\* ("database": the statement could not be run; "constraint": a constraint
\* refused it; "null": a property of null was read), and the rows the call
\* had written.
UpsertFailed(c, cause) ==
    [ op |-> "upsertEventFromGoldsky", ok |-> FALSE, g |-> c.g, stage |-> c.pc,
      cause |-> cause, didOn |-> c.didOn, didMd |-> c.didMd ]

\* pool.connect(), BEGIN
UpsertEnter(g) == [TxBegin(GsIdle) EXCEPT !.pc = "onchain", !.g = g]

\* INSERT INTO events_onchain ... ON CONFLICT (transaction_hash) DO UPDATE
\* SET updated_at = NOW() RETURNING *
InsertOnchainOverwrite(t, g) ==
    IF OnchainByTx(t, g.transaction_hash) # <<>>
    THEN [i \in 1..Len(t) |-> IF t[i].transaction_hash = g.transaction_hash
                              THEN OnchainRow(g) ELSE t[i]]
    ELSE Append(t, OnchainRow(g))
InsertOnchainAlways(t, g) == Append(t, OnchainRow(g))
InsertOnchain(t, g) ==
    IF OnchainByTx(t, g.transaction_hash) # <<>> THEN t ELSE Append(t, OnchainRow(g))

\* Reading goldskyEvent.vid of null throws; a NULL vault or a second row
\* for the event_id violates a constraint.
UpsertOnchain ==
    /\ gs.pc = "onchain"
    /\ IF gs.g.null THEN TRUE ELSE ~Waits(other.gs.wOn, gs.g)
    /\ \E fails \in BOOLEAN :
          IF fails \/ gs.g.null
          THEN /\ gs' = UpsertThrow(gs)
               /\ last' = UpsertFailed(gs, IF gs.g.null THEN "null" ELSE "database")
               /\ UNCHANGED onchain
          ELSE LET g == gs.g
                   conflict == OnchainByTx(SeenOnchain, g.transaction_hash) # <<>>
                   after == InsertOnchain(SeenOnchain, g)
               IN
               IF \/ g.vault = NULL
                  \/ Len(OnchainOf(after, g.event_id)) > 1
                  \/ Len(OnchainByTx(after, g.transaction_hash)) > 1
               THEN /\ gs' = UpsertThrow(gs)
                    /\ last' = UpsertFailed(gs, "constraint")
                    /\ UNCHANGED onchain
               ELSE /\ gs' = [ gs EXCEPT !.pc = "check",
                                 !.saved = OnchainByTx(after, g.transaction_hash),
                                 !.redelivery = conflict,
                                 !.didOn = Rows(after) \ Rows(SeenOnchain),
                                 !.wOn = IF gs.inTx
                                         THEN Touched(onchain, after, g.transaction_hash)
                                         ELSE <<>> ]
                    /\ onchain' = IF gs.inTx THEN onchain ELSE after
                    /\ last' = InFlight
    /\ UNCHANGED <<metadata, profiles, settle, hook>>
    /\ DbFrame

\* SELECT * FROM events_metadata WHERE event_id = $1
CheckMetadata ==
    /\ gs.pc = "check"
    /\ \E fails \in BOOLEAN :
          IF fails
          THEN /\ gs' = UpsertThrow(gs)
               /\ last' = UpsertFailed(gs, "database")
          ELSE /\ gs' = [ gs EXCEPT !.pc =
                            IF MetadataOf(SeenMetadata, gs.g.event_id) = <<>>
                            THEN "lookup" ELSE "commit" ]
               /\ last' = InFlight
    /\ UNCHANGED <<onchain, metadata, profiles, settle, hook>>
    /\ DbFrame

\* organizerResult.rows[0]?.id || null
OrganizerProfileIdMissing(wallet) == NULL
OrganizerProfileId(wallet) ==
    LET ids == {p.id : p \in {q \in profiles : q.wallet_address = wallet}}
    IN JsOrText(ids, NULL)

\* SELECT id FROM profiles WHERE wallet_address = $1 LIMIT 1
LookupOrganizer ==
    /\ gs.pc = "lookup"
    /\ \E fails \in BOOLEAN :
          IF fails
          THEN /\ gs' = UpsertThrow(gs)
               /\ last' = UpsertFailed(gs, "database")
          ELSE /\ gs' = [ gs EXCEPT !.pc = "insert",
                            !.org = OrganizerProfileId(gs.g.organizer),
                            !.seen = {p \in profiles : p.wallet_address = gs.g.organizer} ]
               /\ last' = InFlight
    /\ UNCHANGED <<onchain, metadata, profiles, settle, hook>>
    /\ DbFrame

\* INSERT INTO events_metadata (event_id, title, organizer_profile_id)
\* VALUES ($1, $2, $3) ON CONFLICT (event_id) DO NOTHING
InsertMetadata(t, e, title, organizer) ==
    IF MetadataOf(t, e) # <<>> THEN t ELSE Append(t, MetadataRow(e, title, organizer))

\* The foreign key wants an events_onchain row for the event_id.
InsertDefaultMetadata ==
    /\ gs.pc = "insert"
    /\ MetadataOf(other.gs.wMd, gs.g.event_id) = <<>>
    /\ \E fails \in BOOLEAN :
          LET e == gs.g.event_id
              after == InsertMetadata(SeenMetadata, e, EventTitle(e), gs.org)
          IN
          IF fails \/ OnchainOf(SeenOnchain, e) = <<>>
          THEN /\ gs' = UpsertThrow(gs)
               /\ last' = UpsertFailed(gs, IF fails THEN "database" ELSE "constraint")
               /\ UNCHANGED metadata
          ELSE /\ gs' = [ gs EXCEPT !.pc = "commit",
                            !.didMd = Rows(after) \ Rows(SeenMetadata),
                            !.wMd = IF gs.inTx
                                    THEN SubSeq(after, Len(metadata) + 1, Len(after))
                                    ELSE <<>> ]
               /\ metadata' = IF gs.inTx THEN metadata ELSE after
               /\ last' = InFlight
    /\ UNCHANGED <<onchain, profiles, settle, hook>>
    /\ DbFrame

\* COMMIT; return EventOnchain.fromDatabaseRow(onchainResult.rows[0])
CommitUpsert ==
    /\ gs.pc = "commit"
    /\ \E fails \in BOOLEAN :
          IF fails
          THEN /\ gs' = UpsertThrow(gs)
               /\ last' = UpsertFailed(gs, "database")
               /\ UNCHANGED <<onchain, metadata>>
          ELSE /\ onchain' = ApplyWrites(onchain, gs.wOn)
               /\ metadata' = metadata \o gs.wMd
               /\ gs' = [ gs EXCEPT !.pc = "returned", !.ok = TRUE, !.inTx = FALSE,
                            !.wOn = <<>>, !.wMd = <<>> ]
               /\ last' = [ op |-> "upsertEventFromGoldsky", ok |-> TRUE, g |-> gs.g,
                            redelivery |-> gs.redelivery, org |-> gs.org, seen |-> gs.seen,
                            didOn |-> gs.didOn, didMd |-> gs.didMd,
                            mdPre |-> MetadataOf(metadata, gs.g.event_id),
                            mdPost |-> MetadataOf(metadata', gs.g.event_id) ]
    /\ UNCHANGED <<profiles, settle, hook>>
    /\ DbFrame

\* A caller of the service invokes upsertEventFromGoldsky(goldskyEvent) ...
upsertEventFromGoldsky ==
    /\ gs.pc = "idle"
    /\ hook.pc = "idle"
    /\ \E g \in GoldskyEvents \cup {JsNull} : gs' = UpsertEnter(g)
    /\ last' = InFlight
    /\ UNCHANGED <<onchain, metadata, profiles, settle, hook>>
    /\ DbFrame

\* ... and takes the saved row or the error.
UpsertReturn ==
    /\ gs.pc = "returned"
    /\ hook.pc = "idle"
    /\ gs' = GsIdle
    /\ last' = InFlight
    /\ UNCHANGED <<onchain, metadata, profiles, settle, hook>>
    /\ DbFrame

\* ------------------------------------------------- Goldsky webhook
\* What the request keeps of an element of events it has gone through.
Element(g) == IF g.null THEN [null |-> TRUE] ELSE [null |-> FALSE, event_id |-> g.event_id]

\* POST /api/v1/webhooks/goldsky arrives; the payload's events is an array or not.
handleGoldskyWebhook ==
    /\ hook.pc = "idle"
    /\ gs.pc = "idle"
    /\ \E isArray \in BOOLEAN :
          IF isArray
          THEN /\ hook' = [HookIdle EXCEPT !.pc = "loop"]
               /\ last' = InFlight
          ELSE /\ hook' = HookIdle
               /\ last' = [op |-> "handleGoldskyWebhook", code |-> 400]
    /\ UNCHANGED <<onchain, metadata, profiles, settle, gs>>
    /\ DbFrame

\* for (const goldskyEvent of events): await upsertEventFromGoldsky(goldskyEvent)
HookNextEvent ==
    /\ hook.pc = "loop"
    /\ Len(hook.events) < MaxBatch
    /\ \E g \in GoldskyEvents \cup {JsNull} :
          /\ hook' = [hook EXCEPT !.pc = "await", !.events = Append(@, Element(g))]
          /\ gs' = UpsertEnter(g)
    /\ last' = InFlight
    /\ UNCHANGED <<onchain, metadata, profiles, settle>>
    /\ DbFrame

\* The upsert returned: one 'processed' entry; or it threw: the catch block
\* logs goldskyEvent.event_id and pushes one 'error' entry. Reading event_id
\* of null throws inside the catch block, which ends the request in the
\* outer catch with status 500.
HookCollect ==
    /\ hook.pc = "await"
    /\ gs.pc = "returned"
    /\ gs' = GsIdle
    /\ IF gs.ok
       THEN /\ hook' = [ hook EXCEPT !.pc = "loop",
                           !.processedEvents =
                               Append(@, [ event_id |-> gs.saved[1].event_id,
                                           vault |-> gs.saved[1].vault,
                                           status |-> "processed" ]) ]
            /\ last' = InFlight
       ELSE IF gs.g.null
       THEN /\ hook' = HookIdle
            /\ last' = [ op |-> "handleGoldskyWebhook", code |-> 500,
                         events |-> hook.events, processed_events |-> <<>> ]
       ELSE /\ hook' = [ hook EXCEPT !.pc = "loop",
                           !.processedEvents =
                               Append(@, [event_id |-> gs.g.event_id, status |-> "error"]) ]
            /\ last' = InFlight
    /\ UNCHANGED <<onchain, metadata, profiles, settle>>
    /\ DbFrame

\* The loop is over: res.json({success: true, data: {processed_events, total}})
HookRespond ==
    /\ hook.pc = "loop"
    /\ last' = [ op |-> "handleGoldskyWebhook", code |-> 200, events |-> hook.events,
                 processed_events |-> hook.processedEvents ]
    /\ hook' = HookIdle
    /\ UNCHANGED <<onchain, metadata, profiles, settle, gs>>
    /\ DbFrame

\* The event handlers and the complete-event read over the shared tables.
\* ------------------------------------------- registration and check-in
\* No statement of these handlers names events_metadata or events_onchain.
RegFrameRecount ==
    /\ UNCHANGED <<now, em, onchain, settle, hook, gs, claim, other>>
    /\ metadata' = [i \in 1..Len(metadata) |->
                      [metadata[i] EXCEPT !.current_participants =
                          Cardinality({r \in participant' : r.event_id = metadata[i].event_id})]]
RegFrame == UNCHANGED <<now, em, onchain, metadata, settle, hook, gs, claim, other>>

ParticipantRow(e, u, attend) ==
    [event_id |-> e, user_id |-> u, is_attend |-> attend, is_claim |-> FALSE]

ParticipantOf(t, e, u) == {r \in t : r.event_id = e /\ r.user_id = u}

\* INSERT INTO participant: event_id is UNIQUE, user_id is UNIQUE, and both
\* are foreign keys (events_onchain, profiles); a violation is an error and
\* writes nothing.
InsertParticipantUnchecked(t, r) == [ok |-> TRUE, rows |-> t \cup {r}]
InsertParticipant(t, r) ==
    IF \/ \E x \in t : x.event_id = r.event_id
       \/ \E x \in t : x.user_id = r.user_id
       \/ OnchainOf(onchain, r.event_id) = <<>>
       \/ \A p \in profiles : p.id # r.user_id
    THEN [ok |-> FALSE, rows |-> t]
    ELSE [ok |-> TRUE, rows |-> t \cup {r}]

\* SELECT COUNT(*) FROM participant WHERE event_id = $1 AND user_id = $2; > 0
AlreadyRegisteredNever(t, e, u) == FALSE
AlreadyRegistered(t, e, u) == ParticipantOf(t, e, u) # {}

RegisterUserDone(e, w, code, had, changed) ==
    [ op |-> "RegisterUser", event_id |-> e, user_address |-> w, code |-> code, had |-> had,
      changed |-> changed, status |-> StatusOf(metadata, e), at |-> now ]

\* POST /events/:id/register: the profile lookup and, with a profile, the
\* duplicate check. Without one the request goes on to create it, and makes
\* the duplicate check after that.
RegisterUserCheck ==
    /\ reg.pc \in {"idle", "count"}
    /\ \E e \in EventIds, w \in UserAddresses :
          /\ reg.pc = "count" => (e = reg.event_id /\ w = reg.user_address)
          /\ LET known == {p \in profiles : p.wallet_address = w} IN
             IF known = {}
             THEN /\ reg' = [pc |-> "profile", event_id |-> e, user_address |-> w]
                  /\ last' = InFlight
             ELSE LET uid == (CHOOSE p \in known : TRUE).id IN
                  IF AlreadyRegistered(participant, e, uid)
                  THEN /\ last' = RegisterUserDone(e, w, 409,
                                                   ParticipantOf(participant, e, uid) # {}, FALSE)
                       /\ reg' = [pc |-> "idle"]
                  ELSE /\ reg' = [pc |-> "insert", event_id |-> e, user_address |-> w,
                                  user_id |-> uid,
                                  had |-> ParticipantOf(participant, e, uid) # {}]
                       /\ last' = InFlight
    /\ UNCHANGED <<profiles, participant, checkins>>
    /\ RegFrame

\* INSERT INTO profiles (wallet_address, created_at, updated_at) RETURNING id.
\* The statement gives neither id nor name, and wallet_address is UNIQUE: it
\* fails (500), or the store supplies an id and the profile is committed.
RegisterUserProfile ==
    /\ reg.pc = "profile"
    /\ \/ /\ last' = RegisterUserDone(reg.event_id, reg.user_address, 500, FALSE, FALSE)
          /\ reg' = [pc |-> "idle"]
          /\ UNCHANGED profiles
       \/ \E id \in UuidNew(UserIds) :
             /\ \A p \in profiles : p.wallet_address # reg.user_address
             /\ profiles' = profiles \cup {[id |-> id, wallet_address |-> reg.user_address]}
             /\ reg' = [pc |-> "count", event_id |-> reg.event_id,
                        user_address |-> reg.user_address]
             /\ last' = InFlight
    /\ UNCHANGED <<participant, checkins>>
    /\ RegFrame

\* POST /events/:id/register, the INSERT INTO participant and the answer.
RegisterUserInsert ==
    /\ reg.pc = "insert"
    /\ LET ins == InsertParticipant(participant,
                                    ParticipantRow(reg.event_id, reg.user_id, FALSE))
       IN /\ participant' = ins.rows
          /\ last' = RegisterUserDone(reg.event_id, reg.user_address,
                                      IF ins.ok THEN 201 ELSE 500, reg.had,
                                      ins.rows # participant)
    /\ reg' = [pc |-> "idle"]
    /\ UNCHANGED <<profiles, checkins>>
    /\ RegFrame

\* UPDATE participant SET is_attend = true WHERE event_id = $2 AND user_id = $3
CheckedInAndClaimed(r) == [r EXCEPT !.is_attend = TRUE, !.is_claim = TRUE]
CheckedIn(r) == [r EXCEPT !.is_attend = TRUE]

\* POST /checkin
CheckIn ==
    /\ \E e \in EventIds, u \in UserIds \cup {"not-a-uuid"} :
          LET rows == ParticipantOf(participant, e, u)
              code == IF u \notin UserIds THEN 400
                      ELSE IF rows = {} THEN 404
                      ELSE IF \E r \in rows : r.is_attend THEN 409
                      ELSE 200
          IN /\ participant' = IF code = 200
                               THEN {IF r \in rows THEN CheckedIn(r) ELSE r : r \in participant}
                               ELSE participant
             /\ last' = [op |-> "CheckIn", event_id |-> e, user_id |-> u, code |-> code,
                         pre |-> participant]
    /\ UNCHANGED <<profiles, checkins, reg>>
    /\ RegFrame

\* Rows of checkins are written by the QR check-in flow.
CheckinInsert ==
    /\ \E id \in CheckinIds, e \in EventIds, w \in UserAddresses :
          /\ \A c \in checkins : c.id # id
          /\ checkins' = checkins \cup
                {[ id |-> id, event_id |-> e, user_address |-> w, is_validated |-> FALSE,
                   validated_at |-> {}, validated_by |-> NULL ]}
    /\ last' = [op |-> "CheckinInsert"]
    /\ UNCHANGED <<profiles, participant, reg>>
    /\ RegFrame

\* var validatedAt time.Time: Go's zero time, stored when is_valid is false.
GoZeroTime == 0 - 1

\* UPDATE checkins SET is_validated = $1, validated_at = $2, validated_by = $3
ValidatedCheckin(c, isValid, by) ==
    [c EXCEPT !.is_validated = isValid,
              !.validated_at = {IF isValid THEN now ELSE GoZeroTime}, !.validated_by = by]

\* The participant half of a validation: UPDATE ... WHERE user_id = $1, and
\* an INSERT when no row was affected; errors are logged only.
MarkAttended(t, e, wallet) ==
    LET known == {p \in profiles : p.wallet_address = wallet} IN
    IF known = {} THEN t
    ELSE LET uid == (CHOOSE p \in known : TRUE).id IN
         IF \E r \in t : r.user_id = uid
         THEN {IF r.user_id = uid THEN [r EXCEPT !.is_attend = TRUE] ELSE r : r \in t}
         ELSE InsertParticipant(t, ParticipantRow(e, uid, TRUE)).rows

\* Which branch of the participant half was taken.
Propagation(t, e, wallet, fault) ==
    LET known == {p \in profiles : p.wallet_address = wallet} IN
    IF known = {} THEN "no_profile"
    ELSE IF fault THEN "update_failed"
    ELSE LET uid == (CHOOSE p \in known : TRUE).id IN
         IF \E r \in t : r.user_id = uid THEN "updated"
         ELSE IF InsertParticipant(t, ParticipantRow(e, uid, TRUE)).ok THEN "inserted"
         ELSE "insert_failed"

PropagationFailures == {"no_profile", "update_failed", "insert_failed"}

\* c.JSON(http.StatusOK, checkin), whatever the participant half did.
ValidatedStatusStrict(outcome) == IF outcome \in PropagationFailures THEN 500 ELSE 200
ValidatedStatus(outcome) == 200

\* A validation refused before any write; organizer is NULL before the
\* events row was read.
ValidateRefusedLate(id, code, caller, organizer) ==
    /\ checkins' = {IF c.id = id THEN ValidatedCheckin(c, TRUE, caller) ELSE c : c \in checkins}
    /\ last' = [op |-> "ValidateCheckIn", id |-> id, code |-> code, caller |-> caller,
                organizer |-> organizer,
                was |-> {c \in checkins : c.id = id}, propagation |-> "none",
                post |-> {c \in checkins' : c.id = id}]
    /\ UNCHANGED participant
ValidateRefused(id, code, caller, organizer) ==
    /\ last' = [op |-> "ValidateCheckIn", id |-> id, code |-> code, caller |-> caller,
                organizer |-> organizer,
                was |-> {c \in checkins : c.id = id}, propagation |-> "none",
                post |-> {c \in checkins : c.id = id}]
    /\ UNCHANGED <<checkins, participant>>

\* POST /checkin/validate. caller is the context's user_address ("" when no
\* middleware set it); organizer is the events row of the check-in's event
\* (NULL when the SELECT fails); fault is an error of the UPDATE participant
\* statement.
ValidateCheckIn ==
    /\ \E id \in CheckinIds, isValid \in BOOLEAN, caller \in Wallets \cup {""} :
          LET found == {c \in checkins : c.id = id} IN
          IF caller = "" THEN ValidateRefused(id, 401, caller, NULL)
          ELSE IF found = {} THEN ValidateRefused(id, 404, caller, NULL)
          ELSE \E organizer \in Wallets \cup {"0xother", NULL} :
                  IF organizer = NULL THEN ValidateRefused(id, 500, caller, organizer)
                  ELSE IF organizer # caller THEN ValidateRefused(id, 403, caller, organizer)
                  ELSE LET c == CHOOSE c \in found : TRUE
                           faults == IF isValid /\ \E p \in profiles :
                                                      p.wallet_address = c.user_address
                                     THEN BOOLEAN ELSE {FALSE}
                       IN \E fault \in faults :
                             LET outcome ==
                                   IF isValid
                                   THEN Propagation(participant, c.event_id, c.user_address,
                                                    fault)
                                   ELSE "none"
                             IN /\ checkins' = {IF x \in found
                                                THEN ValidatedCheckin(x, isValid, caller)
                                                ELSE x : x \in checkins}
                                /\ participant' =
                                      IF isValid /\ outcome # "update_failed"
                                      THEN MarkAttended(participant, c.event_id,
                                                        c.user_address)
                                      ELSE participant
                                /\ last' = [op |-> "ValidateCheckIn", id |-> id,
                                            code |-> ValidatedStatus(outcome),
                                            caller |-> caller, organizer |-> organizer,
                                            was |-> found, propagation |-> outcome,
                                            post |-> {x \in checkins' : x.id = id}]
    /\ UNCHANGED <<profiles, reg, claim>>
    /\ RegFrame

\* What ClaimReward leaves alone.
ClaimFrame ==
    UNCHANGED <<now, em, onchain, metadata, settle, hook, gs, profiles, checkins, reg, other>>

\* UPDATE participant SET is_claim = true WHERE event_id = $2 AND user_id = $3
ClaimedAndAbsent(r) == [r EXCEPT !.is_claim = TRUE, !.is_attend = FALSE]
Claimed(r) == [r EXCEPT !.is_claim = TRUE]

ClaimRewardDone(e, w, code, was) ==
    [op |-> "ClaimReward", event_id |-> e, user_address |-> w, code |-> code, was |-> was]

\* ClaimReward, its three reads: the profile of the wallet address given as
\* user_id, the participant record, its is_attend and is_claim.
ClaimRewardCheck ==
    /\ claim.pc = "idle"
    /\ \E e \in EventIds, w \in UserAddresses :
          LET known == {p \in profiles : p.wallet_address = w}
              rows == IF known = {} THEN {}
                      ELSE ParticipantOf(participant, e, (CHOOSE p \in known : TRUE).id)
          IN IF known = {} \/ rows = {}
             THEN /\ last' = ClaimRewardDone(e, w, 404, rows)
                  /\ UNCHANGED claim
             ELSE IF \E r \in rows : ~r.is_attend
             THEN /\ last' = ClaimRewardDone(e, w, 400, rows)
                  /\ UNCHANGED claim
             ELSE IF \E r \in rows : r.is_claim
             THEN /\ last' = ClaimRewardDone(e, w, 409, rows)
                  /\ UNCHANGED claim
             ELSE /\ claim' = [pc |-> "update", event_id |-> e, user_address |-> w,
                               user_id |-> (CHOOSE p \in known : TRUE).id]
                  /\ last' = InFlight
    /\ UNCHANGED participant
    /\ ClaimFrame

\* ClaimReward, the UPDATE ... RETURNING and the answer.
ClaimRewardUpdate ==
    /\ claim.pc = "update"
    /\ LET rows == ParticipantOf(participant, claim.event_id, claim.user_id)
       IN /\ participant' = {IF r \in rows THEN Claimed(r) ELSE r : r \in participant}
          /\ last' = ClaimRewardDone(claim.event_id, claim.user_address,
                                     IF rows = {} THEN 500 ELSE 200, rows)
    /\ claim' = [pc |-> "idle"]
    /\ ClaimFrame

\* ------------------------------------------------- two callers at once
\* Each request runs on its own goroutine (gin), each service call up to its
\* next await (Node): between two statements of one request the statements
\* of another may run. The second caller's request takes the place of the
\* first one's, which waits in its turn.
SwitchFrame ==
    UNCHANGED <<now, em, onchain, metadata, profiles, settle, hook, participant, checkins,
                last>>

SwitchUpsert ==
    /\ hook.pc = "idle"
    /\ gs # other.gs
    /\ gs' = other.gs
    /\ other' = [other EXCEPT !.gs = gs]
    /\ UNCHANGED <<reg, claim>>
    /\ SwitchFrame

SwitchRegisterUser ==
    /\ reg # other.reg
    /\ reg' = other.reg
    /\ other' = [other EXCEPT !.reg = reg]
    /\ UNCHANGED <<gs, claim>>
    /\ SwitchFrame

SwitchClaimReward ==
    /\ claim # other.claim
    /\ claim' = other.claim
    /\ other' = [other EXCEPT !.claim = claim]
    /\ UNCHANGED <<gs, reg>>
    /\ SwitchFrame

Next ==
    \/ IndexerInsert
    \/ CreateEvent
    \/ UpdateEventStatus
    \/ SettleEventSelect
    \/ SettleEventUpdate
    \/ ConfirmSettlement
    \/ updateEventStatus
    \/ getEvent
    \/ GetEvent
    \/ upsertEventMetadata

Spec == Init /\ [][Next]_vars

\* The transactional upsert, with the requests that touch the rows it reads.
NextUpsert ==
    \/ CreateProfile
    \/ CreateEvent
    \/ ConfirmSettlement
    \/ upsertEventFromGoldsky
    \/ UpsertOnchain
    \/ CheckMetadata
    \/ LookupOrganizer
    \/ InsertDefaultMetadata
    \/ CommitUpsert
    \/ UpsertReturn

SpecUpsert == Init /\ [][NextUpsert]_vars

\* The Goldsky webhook going through its batches.
NextWebhook ==
    \/ handleGoldskyWebhook
    \/ HookNextEvent
    \/ UpsertOnchain
    \/ CheckMetadata
    \/ LookupOrganizer
    \/ InsertDefaultMetadata
    \/ CommitUpsert
    \/ HookCollect
    \/ HookRespond

SpecWebhook == Init /\ [][NextWebhook]_vars

\* The read handlers that ask the chain, over events and profiles.
NextRead ==
    \/ IndexerInsert
    \/ CreateEvent
    \/ ConfirmSettlement
    \/ CreateUserProfile
    \/ GetProfile
    \/ GetEvents
    \/ GetEvent

SpecRead == Init /\ [][NextRead]_vars

\* Registration and attendance, over events in different statuses.
NextRegistration ==
    \/ IndexEvent
    \/ CreateEvent
    \/ ConfirmSettlement
    \/ CreateUserProfile
    \/ RegisterUserCheck
    \/ RegisterUserProfile
    \/ RegisterUserInsert
    \/ CheckIn

SpecRegistration == Init /\ [][NextRegistration]_vars

\* Validation of QR check-ins, with the registrations it competes with.
NextCheckin ==
    \/ IndexEvent
    \/ CreateUserProfile
    \/ RegisterUserCheck
    \/ RegisterUserProfile
    \/ RegisterUserInsert
    \/ CheckinInsert
    \/ ValidateCheckIn

SpecCheckin == Init /\ [][NextCheckin]_vars

\* The participant counter next to the handlers that create participant
\* records: registration ...
NextCounter ==
    \/ IndexEvent
    \/ CreateEvent
    \/ CreateUserProfile
    \/ RegisterUserCheck
    \/ RegisterUserProfile
    \/ RegisterUserInsert
    \/ incrementParticipantCount
    \/ decrementParticipantCount

SpecCounter == Init /\ [][NextCounter]_vars

\* ... and check-in validation.
NextCounterValidation ==
    \/ IndexEvent
    \/ CreateEvent
    \/ CreateUserProfile
    \/ CheckinInsert
    \/ ValidateCheckIn
    \/ incrementParticipantCount
    \/ decrementParticipantCount

SpecCounterValidation == Init /\ [][NextCounterValidation]_vars

\* Attendance and reward claims of registered users.
NextClaim ==
    \/ IndexEvent
    \/ RegisterUserCheck
    \/ RegisterUserProfile
    \/ RegisterUserInsert
    \/ CheckIn
    \/ CheckinInsert
    \/ ValidateCheckIn
    \/ ClaimRewardCheck
    \/ ClaimRewardUpdate

SpecClaim == Init /\ [][NextClaim]_vars

\* Two ClaimReward requests at once.
NextClaimRace ==
    \/ IndexEvent
    \/ RegisterUserCheck
    \/ RegisterUserProfile
    \/ RegisterUserInsert
    \/ CheckIn
    \/ ClaimRewardCheck
    \/ ClaimRewardUpdate
    \/ SwitchClaimReward

SpecClaimRace == Init /\ [][NextClaimRace]_vars

\* Two RegisterUser requests at once.
NextRegisterRace ==
    \/ IndexEvent
    \/ RegisterUserCheck
    \/ RegisterUserProfile
    \/ RegisterUserInsert
    \/ SwitchRegisterUser

SpecRegisterRace == Init /\ [][NextRegisterRace]_vars

\* Two upsertEventFromGoldsky calls at once.
NextUpsertRace ==
    \/ IndexerInsert
    \/ upsertEventFromGoldsky
    \/ UpsertOnchain
    \/ CheckMetadata
    \/ LookupOrganizer
    \/ InsertDefaultMetadata
    \/ CommitUpsert
    \/ UpsertReturn
    \/ SwitchUpsert

SpecUpsertRace == Init /\ [][NextUpsertRace]_vars

NextModel ==
    \/ NewEventMetadata
    \/ updateStatusBasedOnTime
    \/ markAsSettled
    \/ incrementParticipantCount
    \/ decrementParticipantCount
    \/ Tick

SpecModel == Init /\ [][NextModel]_vars

\* C1 (as stated): for every now, rd, ed and participant count, after
\* updateStatusBasedOnTime(rd, ed): now < rd gives REGISTRATION_OPEN,
\* rd <= now < ed gives REGISTRATION_CLOSED / VOIDED by the counter, and
\* now >= ed gives LIVE.
C1_AsStated ==
    last.op = "updateStatusBasedOnTime" =>
        /\ (last.at < last.rd => em.status = "REGISTRATION_OPEN")
        /\ (last.rd <= last.at /\ last.at < last.ed =>
               em.status = IF em.current_participants > 0
                           THEN "REGISTRATION_CLOSED" ELSE "VOIDED")
        /\ (last.at >= last.ed => em.status = "LIVE")

\* C1 (amended): the status is derived purely from now and the counter, the
\* deadline test coming first: now < rd gives REGISTRATION_OPEN (also when
\* now >= ed); rd <= now < ed gives REGISTRATION_CLOSED when the counter is
\* positive and VOIDED when it is zero; now >= ed together with now >= rd
\* gives LIVE.
C1_DerivedStatus ==
    last.op = "updateStatusBasedOnTime" =>
        /\ (last.at < last.rd => em.status = "REGISTRATION_OPEN")
        /\ (last.rd <= last.at /\ last.at < last.ed =>
               em.status = IF em.current_participants > 0
                           THEN "REGISTRATION_CLOSED" ELSE "VOIDED")
        /\ (last.at >= last.ed /\ last.at >= last.rd => em.status = "LIVE")

\* C1 witness: a zero-participant object derived VOIDED inside the window
\* and a later derivation giving LIVE are both reached; this one is the
\* window case.
C1_Witness ==
    /\ last.op = "updateStatusBasedOnTime"
    /\ last.rd <= last.at /\ last.at < last.ed
    /\ em.current_participants = 0
    /\ em.status = "VOIDED"

\* ------------------------------------------------ events_metadata.status
\* The requests that write events_metadata.status report the status they
\* found (pre, NULL without a row) and the one they left (post).
StatusWriters ==
    {"CreateEvent", "UpdateEventStatus", "updateEventStatus", "SettleEvent", "ConfirmSettlement"}

Lifecycle ==
    { <<"REGISTRATION_OPEN", "REGISTRATION_CLOSED">>, <<"REGISTRATION_OPEN", "VOIDED">>,
      <<"REGISTRATION_CLOSED", "LIVE">>, <<"LIVE", "SETTLED">> }

\* C2: VOIDED and SETTLED are terminal: a request that finds an event's stored
\* status VOIDED or SETTLED leaves it so.
C2_Terminal ==
    (last.op \in StatusWriters /\ last.pre \in {"VOIDED", "SETTLED"}) => last.post = last.pre

\* C3: every change of an event's stored status is one of the lifecycle
\* transitions OPEN -> CLOSED, OPEN -> VOIDED, CLOSED -> LIVE, LIVE -> SETTLED.
C3_Lifecycle ==
    (last.op \in StatusWriters /\ last.pre # NULL /\ last.post # last.pre) =>
        <<last.pre, last.post>> \in Lifecycle

\* C4: settling an event whose stored status is not LIVE is rejected and
\* leaves the stored status unchanged, at every settlement entry point and
\* whatever happened between the settlement's read and its write.
C4_SettleRejected ==
    (last.op \in {"SettleEvent", "ConfirmSettlement"} /\ last.pre \notin {NULL, "LIVE"}) =>
        (last.code # 200 /\ last.post = last.pre)

\* C5: in every reachable state an events_metadata row whose status is
\* SETTLED has event_settled = TRUE.
C5_SettledHasFigures ==
    \A i \in 1..Len(metadata) : metadata[i].status = "SETTLED" => metadata[i].event_settled

\* C6: the complete event of an identifier with an on-chain row and no
\* metadata row is returned (200) with a non-null title and status
\* REGISTRATION_OPEN.
C6_DefaultMetadata ==
    (last.op = "getEvent" /\ OnchainOf(onchain, last.id) # <<>> /\ ~last.hadMetadata) =>
        /\ last.code = 200
        /\ last.data.metadata.title # NULL
        /\ last.data.metadata.status = "REGISTRATION_OPEN"

\* ------------------------------------------------ upsertEventFromGoldsky
\* C7: the upsert is idempotent on re-delivery: a transaction hash never has
\* two on-chain rows; a call that succeeds on a hash already stored writes no
\* on-chain row and leaves exactly one; re-delivering a stored fact is never
\* refused by a constraint; and a metadata row that exists when the call
\* commits is left as it was (title, status, organizer link, counters).
C7_Idempotent ==
    /\ \A h \in TxHashes : Len(OnchainByTx(onchain, h)) <= 1
    /\ (last.op = "upsertEventFromGoldsky" /\ last.ok) =>
          /\ Len(OnchainByTx(onchain, last.g.transaction_hash)) = 1
          /\ (last.redelivery => last.didOn = {})
          /\ (last.mdPre # <<>> => last.mdPost = last.mdPre)
    /\ (last.op = "upsertEventFromGoldsky" /\ ~last.ok /\ last.cause = "constraint") =>
          OnchainRow(last.g) \notin Rows(onchain)

\* C7 witness: a stored fact is delivered again, after CreateEvent and a
\* settlement have rewritten its metadata row, and the call succeeds.
C7_Witness ==
    /\ last.op = "upsertEventFromGoldsky" /\ last.ok /\ last.redelivery
    /\ OnchainRow(last.g) \in Rows(onchain)
    /\ last.mdPre # <<>>
    /\ last.mdPre[1].title \in Titles
    /\ last.mdPre[1].status = "SETTLED"

\* C8: a successful upsert for an event without a metadata row (none when the
\* call commits) leaves exactly one, titled "Event <event_id>", in status
\* REGISTRATION_OPEN, whose organizer_profile_id is the id of the profile the
\* lookup found for the organizer's wallet, or NULL when it found none; the
\* lookup finding no profile is no failure.
C8_DefaultMetadata ==
    /\ (last.op = "upsertEventFromGoldsky" /\ last.ok /\ last.mdPre = <<>>) =>
          /\ Len(last.mdPost) = 1
          /\ last.mdPost[1].title = "Event " \o ToString(last.g.event_id)
          /\ last.mdPost[1].status = "REGISTRATION_OPEN"
          /\ last.mdPost[1].organizer_profile_id =
                IF last.seen = {} THEN NULL ELSE (CHOOSE p \in last.seen : TRUE).id
    /\ (last.op = "upsertEventFromGoldsky" /\ ~last.ok /\ last.stage = "lookup") =>
          last.cause = "database"
    /\ (gs.pc = "insert" /\ gs.seen = {}) => gs.org = NULL

\* C8 witness: the organizer has a profile and the new metadata row links it.
C8_Witness ==
    /\ last.op = "upsertEventFromGoldsky" /\ last.ok /\ last.mdPre = <<>>
    /\ last.seen # {}
    /\ last.mdPost[1].organizer_profile_id \in ProfileIds

\* C9: the webhook answers every batch with one entry per input event, in
\* input order: 'error' for an event whose upsert failed, 'processed' for one
\* whose upsert succeeded, and every processed event is persisted.
C9_PartialFailure ==
    (last.op = "handleGoldskyWebhook" /\ last.code # 400) =>
        /\ last.code = 200
        /\ Len(last.processed_events) = Len(last.events)
        /\ \A i \in 1..Len(last.processed_events) :
              LET entry == last.processed_events[i] IN
              /\ ~last.events[i].null
              /\ entry.status = "error" => entry.event_id = last.events[i].event_id
              /\ entry.status = "processed" => OnchainOf(onchain, entry.event_id) # <<>>

\* C10: the upsert is atomic: a call that fails leaves none of the rows it
\* wrote, no row of a call in flight is visible before its commit, and no
\* metadata row is without its on-chain row.
InTransaction == {"onchain", "check", "lookup", "insert", "commit"}

C10_Atomic ==
    /\ (last.op = "upsertEventFromGoldsky" /\ ~last.ok) =>
          /\ \A r \in last.didOn : r \notin Rows(onchain)
          /\ \A m \in last.didMd : m \notin Rows(metadata)
    /\ gs.pc \in InTransaction =>
          /\ \A r \in gs.didOn : r \notin Rows(onchain)
          /\ \A m \in gs.didMd : m \notin Rows(metadata)
    /\ \A i \in 1..Len(metadata) : OnchainOf(onchain, metadata[i].event_id) # <<>>

\* C10 witness: the call fails at COMMIT, after it wrote an on-chain row and
\* a metadata row.
C10_Witness ==
    /\ last.op = "upsertEventFromGoldsky" /\ ~last.ok
    /\ last.stage = "commit"
    /\ last.didOn # {} /\ last.didMd # {}

\* ------------------------------------------------------- events_onchain
\* C11: on-chain facts are immutable: every step leaves each stored
\* events_onchain row (vault, organizer, registration deadline, event date,
\* transaction hash, event id) as it was; rows are only ever added.
C11_OnchainImmutable ==
    [][/\ Len(onchain') >= Len(onchain)
       /\ \A i \in 1..Len(onchain) : onchain'[i] = onchain[i]]_vars

\* C11 witness: a transaction hash already stored was delivered again with
\* different facts, the call succeeded, and the stored row is not the
\* delivered one.
C11_Witness ==
    /\ last.op = "upsertEventFromGoldsky" /\ last.ok /\ last.redelivery
    /\ OnchainByTx(onchain, last.g.transaction_hash) # <<>>
    /\ OnchainByTx(onchain, last.g.transaction_hash)[1] # OnchainRow(last.g)

\* ------------------------------------------------------ events_metadata
\* C12: every metadata row refers to an on-chain row with the same event
\* identifier, no event identifier has two metadata rows, and a CreateEvent
\* request whose event_id has no on-chain row is rejected and writes no
\* metadata row.
C12_MetadataHasOnchain ==
    /\ \A i \in 1..Len(metadata) : OnchainOf(onchain, metadata[i].event_id) # <<>>
    /\ \A e \in EventIds : Len(MetadataOf(metadata, e)) <= 1
    /\ (last.op = "CreateEvent" /\ OnchainOf(onchain, last.id) = <<>>) =>
          (last.code \notin {200, 201} /\ last.post = last.pre)

\* C13: a successful CreateEvent for event_id = E whose on-chain row exists
\* leaves the metadata row keyed by E with the requested title and status
\* REGISTRATION_OPEN, and a GetEvent for E that follows it returns that title.
C13_CreateThenGet ==
    /\ (last.op = "CreateEvent" /\ last.code = 201 /\ OnchainOf(onchain, last.id) # <<>>) =>
          /\ MetadataOf(metadata, last.id) # <<>>
          /\ MetadataOf(metadata, last.id)[1].title = last.title
          /\ MetadataOf(metadata, last.id)[1].status = "REGISTRATION_OPEN"
    /\ (last.op = "GetEvent" /\ last.after.op = "CreateEvent" /\ last.after.id = last.id) =>
          (last.code = 200 /\ last.title = last.after.title)

\* C14: the metadata row is created lazily by the first metadata write: an
\* upsertEventMetadata with a title, or a CreateEvent, for an event that has
\* an on-chain row and no metadata row succeeds and leaves a metadata row of
\* that event holding the written title.
C14_LazyCreate ==
    /\ (/\ last.op = "upsertEventMetadata" /\ last.title # {}
        /\ OnchainOf(onchain, last.id) # <<>> /\ ~last.had) =>
          /\ last.code = 200
          /\ MetadataOf(metadata, last.id) # <<>>
          /\ {MetadataOf(metadata, last.id)[1].title} = last.title
    /\ (/\ last.op = "CreateEvent" /\ last.title # ""
        /\ OnchainOf(onchain, last.id) # <<>> /\ ~last.had) =>
          /\ last.code = 201
          /\ MetadataOf(metadata, last.id) # <<>>
          /\ MetadataOf(metadata, last.id)[1].title = last.title

\* ---------------------------------------------------------- participant
\* C15: in every reachable state no two participant records have the same
\* event_id and no two have the same user_id, whatever RegisterUser and
\* ValidateCheckIn requests were made.
C15_OnePerEventOnePerUser ==
    \A r1 \in participant, r2 \in participant :
        (r1.event_id = r2.event_id \/ r1.user_id = r2.user_id) => r1 = r2

\* C15 witness: a validation created the attended record of an event, and a
\* user with a profile who then registered for that event got no record.
C15_Witness ==
    /\ last.op = "RegisterUser" /\ last.code = 500
    /\ \E p \in profiles : p.wallet_address = last.user_address
    /\ \E r \in participant : r.event_id = last.event_id /\ r.is_attend
    /\ \E c \in checkins : c.is_validated

\* C16: RegisterUser for a user who has a participant record for that event
\* when the request checks for one answers 409 and leaves the participant
\* table as it was; no (event, user) pair ever has two records.
C16_DuplicateRegistration ==
    /\ (last.op = "RegisterUser" /\ last.had) => (last.code = 409 /\ ~last.changed)
    /\ \A r1 \in participant, r2 \in participant :
          (r1.event_id = r2.event_id /\ r1.user_id = r2.user_id) => r1 = r2

\* C16 witness: a registered user who has checked in registers again and is
\* answered 409; the record still says attended.
C16_Witness ==
    /\ last.op = "RegisterUser" /\ last.code = 409 /\ last.had
    /\ \E p \in profiles :
          /\ p.wallet_address = last.user_address
          /\ \E r \in ParticipantOf(participant, last.event_id, p.id) :
                r.is_attend /\ ~r.is_claim

\* C17: ValidateCheckIn on a check-in that is already validated leaves its
\* is_validated, validated_at and validated_by as they were and, unless the
\* request is refused as unauthenticated, unauthorized or by a database
\* error, answers 409.
C17_AlreadyValidated ==
    (last.op = "ValidateCheckIn" /\ \E c \in last.was : c.is_validated) =>
        /\ last.post = last.was
        /\ last.code \notin {401, 403, 500} => last.code = 409

\* C18: CheckIn(event, user) with a well-formed user id answers 404 and
\* changes nothing when the pair has no participant record, 409 and changes
\* nothing when the record's is_attend is true, and otherwise 200, setting
\* that record's is_attend and leaving is_claim and all other records alone.
C18_CheckInOutcomes ==
    (last.op = "CheckIn" /\ last.user_id \in UserIds) =>
        LET rows == ParticipantOf(last.pre, last.event_id, last.user_id) IN
        /\ rows = {} => (last.code = 404 /\ participant = last.pre)
        /\ (\E r \in rows : r.is_attend) => (last.code = 409 /\ participant = last.pre)
        /\ (rows # {} /\ \A r \in rows : ~r.is_attend) =>
              /\ last.code = 200
              /\ participant = {IF r \in rows THEN [r EXCEPT !.is_attend = TRUE] ELSE r :
                                  r \in last.pre}

\* C18 witness: a successful check-in while another participant record exists.
C18_Witness ==
    /\ last.op = "CheckIn" /\ last.code = 200
    /\ \E r \in participant :
          r.event_id = last.event_id /\ r.user_id = last.user_id /\ r.is_attend
    /\ \E r \in participant : r.event_id # last.event_id /\ ~r.is_attend

\* C19: RegisterUser creates a participant record only for an event that is
\* open for registration: its status is REGISTRATION_OPEN (an event without
\* a metadata row counts as open, the default status) and its registration
\* deadline has not passed.
C19_OnlyWhileOpen ==
    (last.op = "RegisterUser" /\ last.code = 201) =>
        /\ last.status \in {"REGISTRATION_OPEN", NULL}
        /\ last.at < OnchainOf(onchain, last.event_id)[1].registration_deadline

C21_ChainFailureDegrades ==
    [][/\ (last'.op = "GetProfile" /\ last'.chain_failed) =>
             /\ last'.code = 200
             /\ last'.balance = {"0"}
       /\ (last'.op = "GetEvents" /\ last'.failed # {}) =>
             /\ last'.code = 200
             /\ \A i \in 1..Len(last'.events) :
                   last'.events[i].event_id \in last'.failed =>
                       last'.events[i].current_participants = 0
       /\ (last'.op = "GetEvent" /\ last'.chain_failed) =>
             /\ last'.code = 200
             /\ last'.participant_count = {}
             /\ last'.title = MetadataOf(metadata, last'.id)[1].title
       /\ (last'.op \in {"GetProfile", "GetEvents", "GetEvent"}) =>
             UNCHANGED <<onchain, metadata, profiles, participant, checkins>>]_vars

\* A listing whose contract call failed: the event is listed with 0.
C21_Witness ==
    /\ last.op = "GetEvents"
    /\ last.code = 200
    /\ last.failed # {}
    /\ last.total = 1
    /\ Len(last.events) = 1
    /\ last.events[1].current_participants = 0

\* C22: in ValidateCheckIn, once the check-in row has been updated, a failure
\* of the propagation into the participant table (profile lookup,
\* participant update or participant insert) is swallowed: the request is
\* answered 200 with the updated check-in, and the update is not undone.
C22_PropagationSwallowed ==
    (last.op = "ValidateCheckIn" /\ last.propagation \in PropagationFailures) =>
        /\ last.code = 200
        /\ \E by \in Wallets : last.post = {ValidatedCheckin(c, TRUE, by) : c \in last.was}
        /\ last.post # {}
        /\ last.post \subseteq checkins

\* The insert was refused because another user holds the event's record.
C22_Witness ==
    /\ last.op = "ValidateCheckIn"
    /\ last.propagation = "insert_failed"
    /\ last.code = 200
    /\ \A c \in last.post : c.is_validated /\ c \in checkins
    /\ \E c \in last.post : \E r \in participant : r.event_id = c.event_id

\* C23: in every reachable state of the participant table is_claim = true
\* implies is_attend = true, and no operation (CheckIn, ValidateCheckIn,
\* ClaimReward, RegisterUser) resets is_attend or is_claim from true to
\* false.
C23_ClaimImpliesAttend ==
    [][/\ \A r \in participant' : r.is_claim => r.is_attend
       /\ \A r \in participant :
             \E q \in participant' :
                /\ q.event_id = r.event_id /\ q.user_id = r.user_id
                /\ r.is_attend => q.is_attend
                /\ r.is_claim => q.is_claim]_vars

\* A claimed reward of a participant whose attendance came from a validated
\* check-in.
C23_Witness ==
    /\ last.op = "ClaimReward" /\ last.code = 200
    /\ \E r \in participant : r.is_claim /\ r.is_attend
    /\ \E c \in checkins : c.is_validated

\* C24: a reward is claimed at most once per participant: of two or more
\* interleaved ClaimReward requests for the same event and user at most one
\* is answered with success (a success never finds the reward claimed).
C24_ClaimedOnce ==
    (last.op = "ClaimReward" /\ last.code = 200) => \A r \in last.was : ~r.is_claim

\* C25: for any interleaving of two concurrent RegisterUser requests for the
\* same event and wallet address, at most one participant record of the pair
\* and at most one profile of the wallet exist afterwards, and the request
\* that does not create the record is answered 409, not a generic failure.
C25_RegisterRace ==
    /\ \A e \in EventIds, u \in UserIds : Cardinality(ParticipantOf(participant, e, u)) <= 1
    /\ \A w \in UserAddresses : Cardinality({p \in profiles : p.wallet_address = w}) <= 1
    /\ (last.op = "RegisterUser" /\ last.code = 500) =>
          \A p \in profiles :
             p.wallet_address = last.user_address =>
                ParticipantOf(participant, last.event_id, p.id) = {}

\* Two calls in flight or returned, for one event identifier and with a vault.
SameEvent ==
    /\ gs.pc # "idle" /\ other.gs.pc # "idle"
    /\ ~gs.g.null /\ ~other.gs.g.null
    /\ gs.g.event_id = other.gs.g.event_id
    /\ gs.g.vault # NULL /\ other.gs.g.vault # NULL

\* ... which deliver the fact the store has or will have for the event: the
\* same transaction hash, and no stored row pairs the event or the hash
\* otherwise.
SameFact ==
    /\ SameEvent
    /\ gs.g.transaction_hash = other.gs.g.transaction_hash
    /\ \A r \in Rows(onchain) :
          (r.event_id = gs.g.event_id) <=> (r.transaction_hash = gs.g.transaction_hash)

\* A call was refused by a constraint.
Refused == last.op = "upsertEventFromGoldsky" /\ ~last.ok /\ last.cause = "constraint"

BothCommitted == gs.pc = "returned" /\ other.gs.pc = "returned" /\ gs.ok /\ other.gs.ok

NextMetadataUpdate ==
    \/ IndexEvent
    \/ CreateEvent
    \/ updateEventStatus
    \/ upsertEventMetadata
    \/ updateEventMetadataCall

SpecMetadataUpdate == Init /\ [][NextMetadataUpdate]_vars

\* The yield readiness reads over any stored events. current_participants
\* and the rows themselves are written outside these handlers, so the tables
\* start in any state the columns allow: each event indexed or not, with or
\* without a metadata row.
RECURSIVE StoredEvents(_)
StoredEvents(n) ==
    IF n = 0 THEN {<<<<>>, <<>>>>}
    ELSE LET indexed == {OnchainRow(g) : g \in {x \in EventCreations :
                                                  x.event_id = n /\ x.vault # NULL}}
             described == {[MetadataRow(n, EventTitle(n), NULL)
                               EXCEPT !.current_participants = c, !.deposited_to_yield = d] :
                           c \in Counts, d \in BOOLEAN}
         IN StoredEvents(n - 1)
            \cup {<<Append(t[1], eo), t[2]>> : t \in StoredEvents(n - 1), eo \in indexed}
            \cup {<<Append(t[1], eo), Append(t[2], m)>> :
                     t \in StoredEvents(n - 1), eo \in indexed, m \in described}

InitReady ==
    /\ now = 0
    /\ em = EventMetadataNew([ event_id |-> {}, title |-> {}, organizer_profile_id |-> {},
                               status |-> {}, current_participants |-> {},
                               event_settled |-> {}, total_yield_earned |-> {},
                               total_net_yield |-> {} ])
    /\ \E t \in StoredEvents(MaxEvent) : onchain = t[1] /\ metadata = t[2]
    /\ profiles = {}
    /\ settle = [pc |-> "idle"]
    /\ hook = HookIdle
    /\ gs = GsIdle
    /\ participant = {}
    /\ checkins = {}
    /\ reg = [pc |-> "idle"]
    /\ claim = [pc |-> "idle"]
    /\ other = [gs |-> GsIdle, reg |-> [pc |-> "idle"], claim |-> [pc |-> "idle"]]
    /\ last = [op |-> "none"]

NextReady ==
    \/ Tick
    \/ markEventAsDepositedToYield
    \/ getEventsReadyForYield
    \/ getEventStats

SpecReady == InitReady /\ [][NextReady]_vars

\* C27: validating a check-in for event E marks attendance only for event E:
\* the only participant record whose is_attend may have changed is the
\* record of (E, U); a record of U for a different event is left unchanged.
C27_OnlyThisEvent ==
    [][last'.op = "ValidateCheckIn" =>
          \A r \in participant :
             \/ r \in participant'
             \/ \E c \in last'.post : r.event_id = c.event_id]_vars

\* C28: ValidateCheckIn changes state only for the event's organizer: with
\* no caller identity the answer is 401, with a caller that is not the
\* organizer of the check-in's event it is 403, and in both cases neither the
\* check-in row nor any participant row is changed.
C28_OrganizerOnly ==
    [][last'.op = "ValidateCheckIn" =>
          /\ last'.caller = "" => last'.code = 401
          /\ (last'.caller # "" /\ last'.organizer \notin {NULL, last'.caller}) =>
                last'.code = 403
          /\ last'.code \in {401, 403} => UNCHANGED <<checkins, participant>>
          /\ (checkins' # checkins \/ participant' # participant) =>
                (last'.caller # "" /\ last'.caller = last'.organizer)]_vars

\* A stored check-in, and a caller who is not its event's organizer.
C28_Witness ==
    /\ last.op = "ValidateCheckIn"
    /\ last.code = 403
    /\ last.caller # ""
    /\ last.organizer = "0xother"
    /\ last.was # {} /\ last.post = last.was
    /\ participant # {}

\* C29: updateEventMetadata changes only whitelisted fields: whatever the
\* payload, no row is added or removed and event_id, status,
\* current_participants, deposited_to_yield, event_settled and
\* organizer_profile_id of every row are unchanged; a payload with no whitelisted field fails and changes
\* nothing.
C29_WhitelistOnly ==
    [][last'.op \in {"updateEventMetadata", "upsertEventMetadata"} =>
          /\ Len(metadata') = Len(metadata)
          /\ \A i \in 1..Len(metadata) :
                \A c \in {"event_id", "status", "current_participants", "event_settled",
                          "deposited_to_yield", "organizer_profile_id"} :
                   metadata'[i][c] = metadata[i][c]
          /\ (/\ last'.op = "updateEventMetadata"
              /\ last'.data \cap {"title", "description", "image_url", "location",
                                  "category", "tags"} = {}) =>
                (last'.threw /\ metadata' = metadata)]_vars

\* A payload carrying a title and a status was applied to a stored row.
C29_Witness ==
    /\ last.op = "updateEventMetadata"
    /\ ~last.threw
    /\ {"title", "status", "current_participants"} \subseteq last.data
    /\ MetadataOf(metadata, last.id)[1].title = "Renamed"
    /\ MetadataOf(metadata, last.id)[1].status = "REGISTRATION_OPEN"

\* C30: the events_ready_for_yield count of getEventStats equals the number
\* of events getEventsReadyForYield returns: both select exactly the indexed
\* events that are not deposited to yield, whose registration deadline has
\* passed and whose current_participants > 0 (an event without a metadata
\* row has no participants counted). at is the time of the read.
C30_ReadyExpected ==
    {eo.event_id : eo \in {x \in Rows(onchain) :
        /\ x.registration_deadline <= now
        /\ \A m \in Rows(MetadataOf(metadata, x.event_id)) : ~m.deposited_to_yield
        /\ \E m \in Rows(MetadataOf(metadata, x.event_id)) : m.current_participants > 0}}

====
